---- MODULE Spec2Model ----
(***************************************************************************)
(* Model of the logging engine of yasls-client-go (src/log.go).            *)
(*                                                                         *)
(* Strings are sequences of tokens; the newline is always a token of its   *)
(* own, so that strings.HasSuffix(s, "\n") is a test on the last token.    *)
(* A call of a public method is one action; what the call did, in order,   *)
(* is recorded in `trace` (standard output writes, json.Marshal, Publish   *)
(* attempts, the panic of Fatal).                                          *)
(***************************************************************************)
EXTENDS Integers, Sequences, FiniteSets, TLC

(* ---------------------------- bounds ----------------------------------- *)
MaxTextLen == 2      \* longest message text / byte buffer, in tokens

Chars == {"a", "\n"}
LoggerIds == {"logA", "logB"}
\* the service each logger is configured for
ServiceOf == [id \in LoggerIds |-> IF id = "logA" THEN "svcA" ELSE "svcB"]
\* readings of time.Now() in milliseconds, and of os.Hostname()
Times == {1500}
HostName == "h1"

RECURSIVE SeqsUpTo(_)
SeqsUpTo(n) ==
  IF n = 0 THEN {<<>>}
  ELSE LET shorter == SeqsUpTo(n - 1)
       IN shorter \cup {Append(s, c) : s \in {t \in shorter : Len(t) = n - 1}, c \in Chars}

Texts == SeqsUpTo(MaxTextLen)

(* ---------------------------- Level ------------------------------------ *)
DEBUG == [Text |-> "Debug", Severity |-> 0]
INFO == [Text |-> "Info", Severity |-> 1]
WARNING == [Text |-> "Warning", Severity |-> 2]
ERROR == [Text |-> "Error", Severity |-> 3]
FATAL == [Text |-> "Fatal", Severity |-> 4]

levels == <<DEBUG, INFO, WARNING, ERROR, FATAL>>
Levels == {levels[i] : i \in 1..Len(levels)}

RECURSIVE GetLogLevelFrom(_, _)
GetLogLevelFrom(i, levelText) ==
  IF i > Len(levels) THEN INFO
  ELSE IF levels[i].Text = levelText THEN levels[i]
  ELSE GetLogLevelFrom(i + 1, levelText)

GetLogLevel(levelText) == GetLogLevelFrom(1, levelText)

(* ---------------------------- ISettings -------------------------------- *)
\* The configuration source handed to Create: a key is either unset or set.
Unset == [set |-> FALSE, str |-> "", bool |-> FALSE]
Str(s) == [set |-> TRUE, str |-> s, bool |-> FALSE]
Bool(b) == [set |-> TRUE, str |-> "", bool |-> b]

Get(env, key, fallback) == IF env[key].set THEN env[key].str ELSE fallback
GetBool(env, key, fallback) == IF env[key].set THEN env[key].bool ELSE fallback

Envs(id) ==
  [LOG_SERVICE_NAME : {Str(ServiceOf[id])},
   LOG_LEVEL : {Unset, Str("Warning"), Str("Verbose")},
   LOG_CONSOLE : {Unset, Bool(FALSE)},
   LOG_USE_NATS : {Unset, Bool(FALSE)},
   LOG_USE_REST : {Unset, Bool(TRUE)}]

(* ---------------------------- slices ----------------------------------- *)
\* A Go slice: the nil slice and the empty slice made by make are different.
NilSlice == [isNil |-> TRUE, elems |-> <<>>]
make == [isNil |-> FALSE, elems |-> <<>>]
append(s, x) == [isNil |-> FALSE, elems |-> Append(s.elems, x)]

(* ---------------------------- state ------------------------------------ *)
VARIABLES
  settings,   \* the package-level variable `settings`
  loggers,    \* the logger values returned by Create, by identity
  call,       \* the most recent public call and what it returned
  trace,      \* what the most recent call did, in order
  panicked    \* the process has been aborted by Fatal / Fatalf

vars == <<settings, loggers, call, trace, panicked>>

ZeroSettings == [ServiceName |-> "", MinLogLevel |-> [Text |-> "", Severity |-> 0], LogToConsole |-> FALSE]
ZeroLogger == [active |-> FALSE, publishers |-> NilSlice, settings |-> ZeroSettings, hostname |-> ""]
NoCall == [op |-> "none", logger |-> "", level |-> DEBUG, text |-> <<>>, hasErr |-> FALSE, n |-> 0, err |-> "nil"]

createSettings(env) ==
  [ServiceName |-> Get(env, "LOG_SERVICE_NAME", ""),
   MinLogLevel |-> GetLogLevel(Get(env, "LOG_LEVEL", INFO.Text)),
   LogToConsole |-> GetBool(env, "LOG_CONSOLE", TRUE)]

newPublishers_HTTPFirst(env) ==
  LET s0 == make
      s1 == IF GetBool(env, "LOG_USE_REST", FALSE) THEN append(s0, "http") ELSE s0
  IN IF GetBool(env, "LOG_USE_NATS", TRUE) THEN append(s1, "nats") ELSE s1

newPublishers(env) ==
  LET s0 == make
      s1 == IF GetBool(env, "LOG_USE_NATS", TRUE) THEN append(s0, "nats") ELSE s0
  IN IF GetBool(env, "LOG_USE_REST", FALSE) THEN append(s1, "http") ELSE s1

(* ---------------------------- Message ---------------------------------- *)
Ev(kind, who, data, ok) == [kind |-> kind, who |-> who, data |-> data, ok |-> ok]

HasSuffix(s, suffix) ==
  /\ Len(s) >= Len(suffix)
  /\ SubSeq(s, Len(s) - Len(suffix) + 1, Len(s)) = suffix

\* Message.String: "[%s] %s %s - %s"; the time is rendered to the second.
String(message) ==
  <<"[", message.Level.Text, "] ", ToString(message.Time \div 1000), " ",
    message.ServiceName, " - ">> \o message.Text

\* json.Marshal(message): the field names are the json tags of Message;
\* Level has no tags.  A failed Marshal returns nil bytes and an error.
Marshal(message, marshalOk) ==
  IF marshalOk
  THEN <<[text |-> message.Text,
          level |-> [Text |-> message.Level.Text, Severity |-> message.Level.Severity],
          serviceName |-> message.ServiceName,
          time |-> message.Time,
          hostname |-> message.Hostname]>>
  ELSE <<>>

Println(s) == s \o <<"\n">>

ConsoleOut_AlwaysPrintln(s) == Println(s)

\* lines 248-252: Print when the rendered line ends in a newline, else Println
ConsoleOut(s) == IF HasSuffix(s, <<"\n">>) THEN s ELSE Println(s)

RECURSIVE publishLoop_StopAtFailure(_, _, _, _, _)
publishLoop_StopAtFailure(pubs, i, messageBites, outcomes, message) ==
  IF i > Len(pubs) THEN <<>>
  ELSE IF outcomes[i]
       THEN <<Ev("publish", pubs[i], messageBites, TRUE)>>
            \o publishLoop_StopAtFailure(pubs, i + 1, messageBites, outcomes, message)
       ELSE <<Ev("publish", pubs[i], messageBites, FALSE),
              Ev("stdout", "publishError",
                 <<"Unable to send log to publisher (", "publish failed", "): ">> \o String(message), TRUE)>>

\* lines 264-269: every publisher is attempted; a failure is printed
RECURSIVE publishLoop(_, _, _, _, _)
publishLoop(pubs, i, messageBites, outcomes, message) ==
  IF i > Len(pubs) THEN <<>>
  ELSE <<Ev("publish", pubs[i], messageBites, outcomes[i])>>
       \o (IF outcomes[i] THEN <<>>
           ELSE <<Ev("stdout", "publishError",
                     <<"Unable to send log to publisher (", "publish failed", "): ">> \o String(message), TRUE)>>)
       \o publishLoop(pubs, i + 1, messageBites, outcomes, message)

\* printLog: the events of one dispatch on logger value l
printLog(l, text, level, now, marshalOk, outcomes) ==
  LET message == [Text |-> text,
                  Level |-> level,
                  ServiceName |-> settings.ServiceName,
                  Time |-> now,
                  Hostname |-> l.hostname]
      entry == <<Ev("printLog", "", message, TRUE)>>
      console == IF level.Severity >= settings.MinLogLevel.Severity /\ settings.LogToConsole
                 THEN <<Ev("stdout", "message", ConsoleOut(String(message)), TRUE)>>
                 ELSE <<>>
      messageBites == Marshal(message, marshalOk)
  IN IF l.publishers.isNil
     THEN entry \o console
     ELSE entry \o console
          \o <<Ev("marshal", "", messageBites, marshalOk)>>
          \o (IF marshalOk THEN <<>>
              ELSE <<Ev("stdout", "marshalError", <<"error:", " ", "marshal failed", "\n">>, TRUE)>>)
          \o publishLoop(l.publishers.elems, 1, messageBites, outcomes, message)

(* ---------------------------- errors ----------------------------------- *)
NilError == [isNil |-> TRUE, msg |-> "", hasStack |-> FALSE, frames |-> <<>>]
PlainError == [isNil |-> FALSE, msg |-> "boom", hasStack |-> FALSE, frames |-> <<>>]
TracedError == [isNil |-> FALSE, msg |-> "boom", hasStack |-> TRUE, frames |-> <<"main.f", "main.main">>]
Errors == {NilError, PlainError, TracedError}

\* what trace.GetStack(2) of the external trace package may return
Stacks == {<<"goroutine 1", "\n">>}

RECURSIVE Frames(_)
Frames(fs) == IF fs = <<>> THEN <<>> ELSE <<Head(fs), "\n">> \o Frames(Tail(fs))

\* lines 167-181: the text printErrorLog builds for a non-nil error
enrich(err, msg, stack) ==
  LET base == IF msg = <<>>
              THEN <<"Error: ", err.msg, "\n">>
              ELSE msg \o <<"\n", "Error: ", err.msg, "\n">>
  IN IF err.hasStack
     THEN base \o <<"Stack Trace ---", "\n">> \o Frames(err.frames) \o <<"---">>
     ELSE base \o stack

printErrorLog(l, err, msg, level, stack, now, marshalOk, outcomes) ==
  IF err.isNil
  THEN printLog(l, msg, level, now, marshalOk, outcomes)
  ELSE printLog(l, enrich(err, msg, stack), level, now, marshalOk, outcomes)

(* ---------------------------- actions ---------------------------------- *)
Init ==
  /\ settings = [ServiceName |-> "", MinLogLevel |-> DEBUG, LogToConsole |-> TRUE]
  /\ loggers = [id \in LoggerIds |-> ZeroLogger]
  /\ call = NoCall
  /\ trace = <<>>
  /\ panicked = FALSE

Outcomes(l) == [1..Len(l.publishers.elems) -> BOOLEAN]

Create(id) ==
  /\ ~panicked
  /\ ~loggers[id].active
  /\ \E env \in Envs(id) :
       loggers' = [loggers EXCEPT ![id] =
                     [active |-> TRUE,
                      publishers |-> newPublishers(env),
                      settings |-> createSettings(env),
                      hostname |-> HostName]]
  /\ UNCHANGED <<settings, call, trace, panicked>>

\* the caller may call a method of logger id
Callable(id) ==
  /\ ~panicked
  /\ call.op = "none"
  /\ loggers[id].active

\* the record of a call that returned (n, err) or ended in a panic
Called(op, id, level, text, hasErr, n, events, panics) ==
  /\ call' = [op |-> op, logger |-> id, level |-> level, text |-> text,
              hasErr |-> hasErr, n |-> n, err |-> "nil"]
  /\ trace' = events
  /\ panicked' = panics
  /\ UNCHANGED <<settings, loggers>>

Plain(op, id, level) ==
  /\ Callable(id)
  /\ \E text \in Texts, now \in Times, marshalOk \in BOOLEAN, outcomes \in Outcomes(loggers[id]) :
       Called(op, id, level, text, FALSE, 0,
              printLog(loggers[id], text, level, now, marshalOk, outcomes), FALSE)

Warnf(id) == Plain("Warnf", id, WARNING)
Warn(id) == Plain("Warn", id, WARNING)
Debug(id) == Plain("Debug", id, DEBUG)
Debugf(id) == Plain("Debugf", id, DEBUG)
\* logger.Print (the name Print is taken by the TLC module)
LogPrint(id) == Plain("Print", id, INFO)
Printf(id) == Plain("Printf", id, INFO)

WithError(op, id) ==
  /\ Callable(id)
  /\ \E err \in Errors, text \in Texts, stack \in Stacks, now \in Times,
        marshalOk \in BOOLEAN, outcomes \in Outcomes(loggers[id]) :
       Called(op, id, ERROR, text, ~err.isNil, 0,
              printErrorLog(loggers[id], err, text, ERROR, stack, now, marshalOk, outcomes),
              FALSE)

Error(id) == WithError("Error", id)
Errorf(id) == WithError("Errorf", id)

\* log.Panic / log.Panicf: the text goes to standard error, then panic(text)
Panic(text) == <<Ev("stderr", "panic", Println(text), TRUE), Ev("panic", "", text, TRUE)>>

WithPanic_PanicFirst(op, id) ==
  /\ Callable(id)
  /\ \E err \in Errors, text \in Texts, stack \in Stacks, now \in Times,
        marshalOk \in BOOLEAN, outcomes \in Outcomes(loggers[id]) :
       Called(op, id, FATAL, text, ~err.isNil, 0, Panic(text), TRUE)

WithPanic(op, id) ==
  /\ Callable(id)
  /\ \E err \in Errors, text \in Texts, stack \in Stacks, now \in Times,
        marshalOk \in BOOLEAN, outcomes \in Outcomes(loggers[id]) :
       Called(op, id, FATAL, text, ~err.isNil, 0,
              printErrorLog(loggers[id], err, text, FATAL, stack, now, marshalOk, outcomes)
                \o Panic(text),
              TRUE)

Fatal(id) == WithPanic("Fatal", id)
Fatalf(id) == WithPanic("Fatalf", id)

Write_ErrOnFailure(id) ==
  /\ Callable(id)
  /\ \E level \in Levels, p \in Texts, now \in Times,
        marshalOk \in BOOLEAN, outcomes \in Outcomes(loggers[id]) :
       LET events == printLog(loggers[id], p, level, now, marshalOk, outcomes)
           failed == \E i \in 1..Len(events) : ~events[i].ok
       IN /\ call' = [op |-> "Write", logger |-> id, level |-> level, text |-> p,
                      hasErr |-> FALSE, n |-> IF failed THEN 0 ELSE Len(p),
                      err |-> IF failed THEN "write failed" ELSE "nil"]
          /\ trace' = events
          /\ UNCHANGED <<settings, loggers, panicked>>

Write_DropsFailed(id) ==
  /\ Callable(id)
  /\ \E level \in Levels, p \in Texts, now \in Times,
        marshalOk \in BOOLEAN, outcomes \in Outcomes(loggers[id]) :
       LET l == loggers[id]
           kept == SelectSeq([i \in 1..Len(l.publishers.elems) |-> <<l.publishers.elems[i], outcomes[i]>>],
                             LAMBDA po : po[2])
       IN /\ call' = [op |-> "Write", logger |-> id, level |-> level, text |-> p,
                      hasErr |-> FALSE, n |-> Len(p), err |-> "nil"]
          /\ trace' = printLog(l, p, level, now, marshalOk, outcomes)
          /\ loggers' = [loggers EXCEPT ![id].publishers.elems = [i \in 1..Len(kept) |-> kept[i][1]]]
          /\ UNCHANGED <<settings, panicked>>

\* GetWriter(level) followed by Writer.Write(p)
Write(id) ==
  /\ Callable(id)
  /\ \E level \in Levels, p \in Texts, now \in Times,
        marshalOk \in BOOLEAN, outcomes \in Outcomes(loggers[id]) :
       Called("Write", id, level, p, FALSE, Len(p),
              printLog(loggers[id], p, level, now, marshalOk, outcomes), FALSE)

\* the method has returned and its caller goes on
Continue ==
  /\ ~panicked
  /\ call.op # "none"
  /\ call' = NoCall
  /\ trace' = <<>>
  /\ UNCHANGED <<settings, loggers, panicked>>

Next ==
  \/ \E id \in LoggerIds : Create(id)
  \/ \E id \in LoggerIds : Warnf(id)
  \/ \E id \in LoggerIds : Warn(id)
  \/ \E id \in LoggerIds : Error(id)
  \/ \E id \in LoggerIds : Errorf(id)
  \/ \E id \in LoggerIds : Fatal(id)
  \/ \E id \in LoggerIds : Fatalf(id)
  \/ \E id \in LoggerIds : Debug(id)
  \/ \E id \in LoggerIds : Debugf(id)
  \/ \E id \in LoggerIds : LogPrint(id)
  \/ \E id \in LoggerIds : Printf(id)
  \/ \E id \in LoggerIds : Write(id)
  \/ Continue

Spec == Init /\ [][Next]_vars

(* ---------------------------- observations ----------------------------- *)
Dispatched == call.op # "none"
L == loggers[call.logger]
pubsOfCall == L.publishers.elems
Of(kind) == {i \in DOMAIN trace : trace[i].kind = kind}
ConsoleLines == {i \in DOMAIN trace : trace[i].kind = "stdout" /\ trace[i].who = "message"}
Publishes == SelectSeq(trace, LAMBDA e : e.kind = "publish")
IsFatalOp == call.op \in {"Fatal", "Fatalf"}
SomePublishFailed == \E i \in Of("publish") : ~trace[i].ok
MarshalFailed == \E i \in Of("marshal") : ~trace[i].ok

RECURSIVE TrailingNewlines(_)
TrailingNewlines(s) ==
  IF s = <<>> THEN 0
  ELSE IF s[Len(s)] = "\n" THEN 1 + TrailingNewlines(SubSeq(s, 1, Len(s) - 1))
  ELSE 0

Max(a, b) == IF a >= b THEN a ELSE b

(* ---------------------------- claims ----------------------------------- *)

\* C1: on a logger configured with logToConsole = true and minLogLevel = L2,
\* a dispatch at a level below L2 writes no console line but still attempts
\* Publish on every configured publisher, and a dispatch at a level at or
\* above L2 writes exactly one console line.
C1_ConsoleGateUsesLoggerSettings ==
  (Dispatched /\ L.settings.LogToConsole) =>
     /\ (call.level.Severity < L.settings.MinLogLevel.Severity) =>
           /\ ConsoleLines = {}
           /\ Len(Publishes) = Len(pubsOfCall)
     /\ (call.level.Severity >= L.settings.MinLogLevel.Severity) =>
           Cardinality(ConsoleLines) = 1

\* C2: every Message built by a dispatch, on the console and on the wire,
\* carries the serviceName and hostname the logger was configured with.
C2_MessageCarriesLoggerServiceName ==
  Dispatched =>
     /\ \A i \in Of("printLog") :
           /\ trace[i].data.ServiceName = L.settings.ServiceName
           /\ trace[i].data.Hostname = L.hostname
     /\ \A i \in ConsoleLines : trace[i].data[6] = L.settings.ServiceName
     /\ \A i \in Of("marshal") :
           trace[i].ok => trace[i].data[1].serviceName = L.settings.ServiceName

\* C3: a failing Publish does not stop delivery: every configured publisher
\* is attempted with the bytes json.Marshal returned, whatever the outcome of
\* the publishers before it, and the call returns normally (no error, and no
\* panic unless the call is Fatal / Fatalf).
C3_PublishFailureIsolated ==
  Dispatched =>
     /\ \A j \in 1..Len(pubsOfCall) :
           \E k \in Of("publish") :
              /\ trace[k].who = pubsOfCall[j]
              /\ \E m \in Of("marshal") : m < k /\ trace[k].data = trace[m].data
     /\ call.err = "nil"
     /\ ~IsFatalOp => ~panicked

C3_Witness ==
  /\ Dispatched
  /\ ~panicked
  /\ Len(pubsOfCall) = 2
  /\ Len(Publishes) = 2
  /\ ~Publishes[1].ok
  /\ Publishes[2].who = pubsOfCall[2]
  /\ Publishes[2].ok

C5_FatalPanicsAfterDispatch ==
  /\ panicked <=> (Dispatched /\ IsFatalOp)
  /\ (Dispatched /\ IsFatalOp) =>
        /\ Cardinality(Of("panic")) = 1
        /\ trace[Len(trace)].kind = "panic"
        /\ trace[Len(trace)].data = call.text
        /\ Cardinality(Of("printLog")) = 1
        /\ L.settings.LogToConsole => Cardinality(ConsoleLines) = 1
        /\ Len(Publishes) = Len(pubsOfCall)
        /\ \A i \in Of("printLog") \cup ConsoleLines \cup Of("publish") : i < Len(trace)

C5_Witness ==
  /\ panicked
  /\ call.op = "Fatal"
  /\ call.hasErr
  /\ Len(pubsOfCall) = 2
  /\ SomePublishFailed
  /\ ConsoleLines # {}
  /\ trace[Len(trace)].kind = "panic"

\* C6: within one call the console line precedes every Publish attempt, the
\* Publish attempts are exactly the logger's publisher list in list order,
\* one attempt each, and Create lists the message-bus publisher before the
\* HTTP publisher.
C6_ConsoleThenPublishersInOrder ==
  /\ \A id \in LoggerIds :
        loggers[id].publishers.elems \in {<<>>, <<"nats">>, <<"http">>, <<"nats", "http">>}
  /\ Dispatched =>
        /\ \A c \in ConsoleLines : \A k \in Of("publish") : c < k
        /\ Len(Publishes) = Len(pubsOfCall)
        /\ \A i \in 1..Len(Publishes) : Publishes[i].who = pubsOfCall[i]

C6_Witness ==
  /\ Dispatched
  /\ pubsOfCall = <<"nats", "http">>
  /\ ConsoleLines # {}
  /\ Len(Publishes) = 2
  /\ Publishes[1].who = "nats"
  /\ Publishes[2].who = "http"

\* C7: Writer.Write(p) makes exactly one dispatch, of the whole buffer as
\* text at the bound level, and returns (len(p), nil), also when json.Marshal
\* or a publisher fails.
C7_WriteAlwaysSucceeds ==
  call.op = "Write" =>
     /\ call.n = Len(call.text)
     /\ call.err = "nil"
     /\ ~panicked
     /\ Cardinality(Of("printLog")) = 1
     /\ \A i \in Of("printLog") :
           /\ trace[i].data.Text = call.text
           /\ trace[i].data.Level = call.level

C7_Witness ==
  /\ call.op = "Write"
  /\ Len(call.text) = MaxTextLen
  /\ call.n = MaxTextLen
  /\ MarshalFailed
  /\ SomePublishFailed

\* C8 as stated: the console output of a dispatch ends with exactly one
\* trailing newline.
C8_ExactlyOneTrailingNewline ==
  Dispatched => \A i \in ConsoleLines : TrailingNewlines(trace[i].data) = 1

\* C8 as amended: the console output ends with a newline; a text already
\* ending in a newline is written as rendered, with no newline added, so the
\* output keeps every trailing newline of the text, and a text not ending in
\* a newline gets exactly one appended.
C8_NewlineAddedOnlyWhenMissing ==
  Dispatched =>
     \A i \in ConsoleLines : \A e \in Of("printLog") :
        LET text == trace[e].data.Text
            rendered == String(trace[e].data)
            out == trace[i].data
        IN /\ HasSuffix(text, <<"\n">>) => out = rendered
           /\ ~HasSuffix(text, <<"\n">>) => out = rendered \o <<"\n">>
           /\ TrailingNewlines(out) = Max(1, TrailingNewlines(text))

C8_Witness ==
  /\ Dispatched
  /\ \E i \in ConsoleLines : \E e \in Of("printLog") :
        /\ HasSuffix(trace[e].data.Text, <<"\n">>)
        /\ trace[i].data = String(trace[e].data)

\* C9: on a logger built with no publisher enabled a dispatch stops after
\* the console step: json.Marshal is not called and no Publish is invoked.
C9_NoPublisherNoMarshal ==
  (Dispatched /\ Len(pubsOfCall) = 0) =>
     /\ Of("marshal") = {}
     /\ Of("publish") = {}

\* C10: once Create has returned a logger, no step changes that logger's
\* settings or publisher list, nor the package-level settings.
C10_LoggerImmutable ==
  [][/\ settings' = settings
     /\ \A id \in LoggerIds : loggers[id].active => loggers'[id] = loggers[id]]_vars

C10_Witness ==
  /\ Dispatched
  /\ call.op = "Write"
  /\ \A id \in LoggerIds : loggers[id].active
  /\ Len(pubsOfCall) = 2
  /\ SomePublishFailed
====
